---------------------------- MODULE Spec2Model ----------------------------
(***************************************************************************)
(* State-machine model of the Fleet VirtualClientEngine                    *)
(* (src/py/flwr/server/superlink/fleet/vce/vce_api.py): run_vce registers  *)
(* the nodes, run() creates the bounded queue, the actor pool, one worker  *)
(* coroutine per actor and the pull loop (generate_pull_requests).         *)
(*                                                                         *)
(* A TaskIns is [task_id, node_id, run_id, group_id, ttl, task_type]; a     *)
(* TaskRes is [ancestry, producer, run_id, content].    A context is        *)
(* identified by the task whose execution returned it (EmptyCtx for the    *)
(* RecordSet created by register_context).                                 *)
(* The store keeps instructions and results per node, in the order they    *)
(* were stored: its contract orders them per consumer only.                *)
(* The state store, the node-state registry and the actor pool are         *)
(* collaborators whose code is not part of the sources; they are modelled  *)
(* from their documented contracts.                                        *)
(***************************************************************************)
EXTENDS Naturals, Integers, Sequences, FiniteSets, TLC

\* ------------------------------------------------------------- bounds
\* largest num_supernodes given to run_vce
MaxNodes == 2
\* largest pool.actors_capacity
MaxActors == 2
\* number of TaskIns the driver stores in the general specification
MaxTasks == 3
\* number of run ids the driver uses
MaxRuns == 2
\* number of TaskIns the driver stores in the backpressure specification
MaxBacklog == 66

\* maxsize of the internal queue: asyncio.Queue(64)
QueueMaxSize == 64

\* limit of every poll: get_task_ins(node_id=node_id, limit=1)
PollLimitTwo == 1 + 1
PollLimit == 1

EmptyCtx == 0
NoTask ==
    [task_id |-> 0, node_id |-> 0, run_id |-> 0, group_id |-> 0, ttl |-> 0,
     task_type |-> "none"]
NoFuture == 0
Runs == 1..MaxRuns

VARIABLES
    engine,         \* position of run_vce: "init", "running", "terminated"
    num_supernodes, \* argument of run_vce
    num_actors,     \* pool.num_actors after add_actors_to_pool
    nodes_mapping,  \* node_id -> partition index (NodeToPartitionMapping)
    node_states,    \* node_id -> (run_id -> context)           (NodeState)
    task_ins_store, \* state store: node_id -> its TaskIns, in store order
    delivered,      \* state store: task ids already returned by get_task_ins
    task_res_store, \* state store: node_id -> its TaskRes, in store order
    queue,          \* the asyncio.Queue of TaskIns
    pull,           \* the pull loop: [pc, idx, item]
    workers,        \* worker -> [pc, task_ins, run_state, future, err, prev]
    pool_free,      \* number of idle actors in the pool
    futures,        \* future -> [task_id, message, cid, run_state, worker]
    next_future,    \* futures handed out so far
    enq,            \* history: node_id -> task ids put on the queue, in order
    failed,         \* history: task ids whose execution raised
    shutdown,       \* environment: a shutdown of the engine was requested
    overdue,        \* environment: task ids whose execution outlasted ttl
    typed_dict,     \* a TypedDict: [data, call], see the TypedDict section
    conv,           \* a ParametersRecord and its conversions, see there
    dp,             \* a DPStrategyWrapperServerSideFixedClipping, see there
    part            \* DirichletPartitioners of one configuration, see there

vars == <<engine, num_supernodes, num_actors, nodes_mapping, node_states,
          task_ins_store, delivered, task_res_store, queue, pull, workers,
          pool_free, futures, next_future, enq, failed, shutdown, overdue,
          typed_dict, conv, dp, part>>

\* The state of the engine, and the state of the library objects that
\* the engine's actions leave alone.
vceVars == <<engine, num_supernodes, num_actors, nodes_mapping, node_states,
             task_ins_store, delivered, task_res_store, queue, pull, workers,
             pool_free, futures, next_future, enq, failed, shutdown, overdue>>
libVars == <<typed_dict, conv, dp, part>>

\* ------------------------------------------------------------ helpers
Last(s) == s[Len(s)]

SeqToSet(s) == {s[i] : i \in 1..Len(s)}

\* The first k elements of s (all of s when it is shorter).
Take(s, k) == SubSeq(s, 1, IF Len(s) < k THEN Len(s) ELSE k)

Nodes == DOMAIN nodes_mapping

\* ------------------------------------------------- state store (§4.4)
\* create_node(): a fresh integer identifier unique within the store.
CreateNode(ids) == 101 + Cardinality(ids)

\* The id store_task_ins gives the k-th instruction of a node: unique
\* within the store.
TaskId(node_id, k) == 1000 * node_id + k

\* The TaskIns of a node, in store order.
TasksOf(node_id) == task_ins_store[node_id]

\* Every TaskIns stored so far.
AllTasks == UNION {SeqToSet(task_ins_store[n]) : n \in DOMAIN task_ins_store}

\* get_task_ins(node_id, limit) when dlv are the delivered task ids: up to
\* limit pending tasks of the node, in FIFO order.
GetTaskIns(dlv, node_id, limit) ==
    Take(SelectSeq(TasksOf(node_id), LAMBDA t : t.task_id \notin dlv), limit)

\* message_to_taskres: the reply's content and run id, not yet configured.
\* The content is identified by the message whose execution produced it.
message_to_taskres(out_mssg) ==
    [content |-> out_mssg.reply_to, run_id |-> out_mssg.run_id]

\* configure_task_res: the result references its TaskIns and is stamped
\* with the producer node.
ConfigureTaskRes(task_res, task_ins, node_id) ==
    [ancestry |-> task_ins.task_id, producer |-> node_id,
     run_id |-> task_ins.run_id, content |-> task_res.content]

\* ------------------------------------------- node-state registry (§4.6)
\* register_context(run_id): create an empty context when absent.
RegisterContext(ns, run_id) ==
    IF run_id \in DOMAIN ns THEN ns
    ELSE [r \in DOMAIN ns \cup {run_id} |->
             IF r = run_id THEN EmptyCtx ELSE ns[r]]

RetrieveContext(ns, run_id) == ns[run_id]

\* update_context(run_id, context): replace the stored context.
UpdateContext(ns, run_id, ctx) == [ns EXCEPT ![run_id] = ctx]

\* ----------------------------------------------------------- messages
\* taskins_to_message with the consumer's node id in the node_id field.
taskins_to_message_consumer(taskins, datapartition_id) ==
    [run_id |-> taskins.run_id, message_id |-> taskins.task_id,
     group_id |-> taskins.group_id, node_id |-> taskins.node_id,
     ttl |-> taskins.ttl, message_type |-> taskins.task_type]

\* taskins_to_message: metadata from the envelope, node_id := partition.
taskins_to_message(taskins, datapartition_id) ==
    [run_id |-> taskins.run_id, message_id |-> taskins.task_id,
     group_id |-> taskins.group_id, node_id |-> datapartition_id,
     ttl |-> taskins.ttl, message_type |-> taskins.task_type]

\* The client app run by an actor: the reply and the updated context.
ClientAppRun(message, ctx) ==
    [out_mssg |-> [reply_to |-> message.message_id, run_id |-> message.run_id],
     updated_context |-> message.message_id]

\* The task whose result for (node_id, run_id) was stored last (0: none).
LastCompleted(node_id, run_id) ==
    LET done == SelectSeq(task_res_store[node_id],
                          LAMBDA r : r.run_id = run_id)
    IN  IF done = <<>> THEN 0 ELSE Last(done).ancestry

IdleWorker ==
    [pc |-> "get", task_ins |-> NoTask, run_state |-> EmptyCtx,
     future |-> NoFuture, err |-> "none", prev |-> 0]

ExitedWorker(err) ==
    [pc |-> "exited", task_ins |-> NoTask, run_state |-> EmptyCtx,
     future |-> NoFuture, err |-> err, prev |-> 0]

\* ------------------------------------------------------------ TypedDict
\* (src/py/flwr/common/record/typeddict.py)  _data is a Python dict: a
\* sequence of [key, value] entries in insertion order, one per key.
\* A method's outcome is [data, raised, returned].

\* number of keys the key predicate accepts
MaxKeys == 2
\* number of values the value predicate accepts
MaxValues == 2

\* The keys and values callers pass: those of the record's key and value
\* type, and one of another type each.
TdKeys == [type : {"str"}, id : 1..MaxKeys] \cup {[type |-> "int", id |-> 1]}
TdValues ==
    [type : {"Array"}, id : 1..MaxValues] \cup {[type |-> "str", id |-> 1]}
NoKey == [type |-> "None", id |-> 0]
NoValue == [type |-> "None", id |-> 0]

\* check_key_fn / check_value_fn return (TRUE) or raise TypeError (FALSE).
CheckKey(key) == key.type = "str"
CheckValue(value) == value.type = "Array"

DictKeys(data) == {data[i].key : i \in 1..Len(data)}
DictIndex(data, key) == CHOOSE i \in 1..Len(data) : data[i].key = key
\* data[key]
DictGetItem(data, key) == data[DictIndex(data, key)].value
\* A dict whose overwritten key moves to the end.
DictSetItemMoveToEnd(data, key, value) ==
    Append(SelectSeq(data, LAMBDA e : e.key # key),
           [key |-> key, value |-> value])
\* data[key] = value: an existing key keeps its position.
DictSetItem(data, key, value) ==
    IF key \in DictKeys(data)
    THEN [data EXCEPT ![DictIndex(data, key)].value = value]
    ELSE Append(data, [key |-> key, value |-> value])
\* del data[key]
DictDelItem(data, key) == SelectSeq(data, LAMBDA e : e.key # key)

Raises(data, exception) ==
    [data |-> data, raised |-> exception, returned |-> NoValue]
Returns(data, value) == [data |-> data, raised |-> "none", returned |-> value]

\* __setitem__ without the two checks.
TypedDict_setitem_unchecked(data, key, value) ==
    Returns(DictSetItem(data, key, value), NoValue)

\* __setitem__: check the key, check the value, then set.
TypedDict_setitem(data, key, value) ==
    IF ~CheckKey(key) THEN Raises(data, "TypeError")
    ELSE IF ~CheckValue(value) THEN Raises(data, "TypeError")
    ELSE Returns(DictSetItem(data, key, value), NoValue)

\* __delitem__: del self._data[key]
TypedDict_delitem(data, key) ==
    IF key \notin DictKeys(data) THEN Raises(data, "KeyError")
    ELSE Returns(DictDelItem(data, key), NoValue)

\* __getitem__: self._data[item]
TypedDict_getitem(data, item) ==
    IF item \notin DictKeys(data) THEN Raises(data, "KeyError")
    ELSE Returns(data, DictGetItem(data, item))

\* pop that returns None for a missing key.
TypedDict_pop_default(data, key) ==
    IF key \notin DictKeys(data) THEN Returns(data, NoValue)
    ELSE Returns(DictDelItem(data, key), DictGetItem(data, key))

\* pop: self._data.pop(key), without a default.
TypedDict_pop(data, key) ==
    IF key \notin DictKeys(data) THEN Raises(data, "KeyError")
    ELSE Returns(DictDelItem(data, key), DictGetItem(data, key))

\* get: self._data.get(key, default)
TypedDict_get(data, key, default) ==
    IF key \notin DictKeys(data) THEN Returns(data, default)
    ELSE Returns(data, DictGetItem(data, key))

\* number of entries of the dict a caller passes to update
MaxEntries == 2

\* The values of the entries passed to update: one the value predicate
\* accepts and one it rejects.
EntryValues == {v \in TdValues : v.id = 1}

\* dict(*args, **kwargs).items(): entries in insertion order, one per key.
\* update stops at the first entry a predicate rejects and never reads
\* the entries after it: the dicts passed here end with that entry.
Entries ==
    {e \in UNION {[1..n -> [key : TdKeys, value : EntryValues]] :
                     n \in 0..MaxEntries} :
        /\ \A i, j \in 1..Len(e) : e[i].key = e[j].key => i = j
        /\ \A i \in 1..(Len(e) - 1) :
              CheckKey(e[i].key) /\ CheckValue(e[i].value)}

\* update: for key, value in entries: self[key] = value; a raise of
\* __setitem__ ends the loop.
RECURSIVE TypedDict_update(_, _)
TypedDict_update(data, entries) ==
    IF entries = <<>> THEN Returns(data, NoValue)
    ELSE LET set == TypedDict_setitem(data, Head(entries).key,
                                      Head(entries).value)
         IN  IF set.raised # "none" THEN set
             ELSE TypedDict_update(set.data, Tail(entries))

\* clear: self._data.clear()
TypedDict_clear(data) == Returns(<<>>, NoValue)

\* __iter__: iter(self._data), the keys in the dict's order.
TypedDict_iter(data) == [i \in 1..Len(data) |-> data[i].key]
\* keys(), values(), items(): the views of _data, as lists.
TypedDict_keys(data) == [i \in 1..Len(data) |-> data[i].key]
TypedDict_values(data) == [i \in 1..Len(data) |-> data[i].value]
TypedDict_items(data) == [i \in 1..Len(data) |-> <<data[i].key, data[i].value>>]

\* The record after a call: its data, and the call with its outcome;
\* had_key tells whether the key was present when the call was made.
AfterCall(op, key, value, outcome) ==
    [data |-> outcome.data,
     call |-> [op |-> op, key |-> key, value |-> value,
               raised |-> outcome.raised, returned |-> outcome.returned,
               had_key |-> key \in DictKeys(typed_dict.data)]]

\* An entry that the key or the value predicate rejects is among the
\* entries.
RejectedEntry(entries) ==
    \E i \in 1..Len(entries) :
        ~CheckKey(entries[i].key) \/ ~CheckValue(entries[i].value)

\* The record after update(entries): the call also keeps the keys of its
\* entries in their order, whether one of the entries is rejected by a
\* predicate, and whether _data differs from what it was when the call
\* was made (mutated).
AfterUpdate(entries, outcome) ==
    [data |-> outcome.data,
     call |-> [op |-> "update", key |-> NoKey, value |-> NoValue,
               raised |-> outcome.raised, returned |-> outcome.returned,
               had_key |-> FALSE,
               entries |-> TypedDict_iter(entries),
               rejected |-> RejectedEntry(entries),
               mutated |-> outcome.data # typed_dict.data]]

\* __init__: an empty _data.
NewTypedDict ==
    [data |-> <<>>,
     call |-> [op |-> "init", key |-> NoKey, value |-> NoValue,
               raised |-> "none", returned |-> NoValue, had_key |-> FALSE]]

\* ------------------------------------------------------- recordset_utils
\* (src/py/flwr/common/recordset_utils.py)  A ParametersRecord's data is
\* an ordered dict of key -> Array, an Array is [data, dtype, stype,
\* shape], Parameters is [tensors, tensor_type].

\* largest number of Arrays in a record
MaxArrays == 2
\* number of distinct byte blobs
MaxBlobs == 2

ArrayKeys == {"fc1.weight", "fc1.bias", "fc2.weight"}
Array(data, dtype, stype, shape) ==
    [data |-> data, dtype |-> dtype, stype |-> stype, shape |-> shape]
\* The Arrays callers put in a record: NumPy arrays of either blob.
Arrays == {Array(b, "float32", "numpy.ndarray", <<1>>) : b \in 1..MaxBlobs}

\* `if not keep_input: del record.data[key]` that never deletes.
AfterAppendKept(data, key, keep_input) == data
\* if not keep_input: del record.data[key]
AfterAppend(data, key, keep_input) ==
    IF keep_input THEN data ELSE DictDelItem(data, key)

\* for key in list(record.data.keys()): append record.data[key].data,
\* and delete the entry unless keep_input.  keys is the list made before
\* the loop; the outcome is the Parameters and the record afterwards.
RECURSIVE RecordToParametersLoop(_, _, _, _)
RecordToParametersLoop(keys, data, parameters, keep_input) ==
    IF keys = <<>>
    THEN [parameters |-> parameters, data |-> data]
    ELSE LET key == Head(keys)
             appended == [parameters EXCEPT !.tensors =
                             Append(@, DictGetItem(data, key).data)]
         IN  RecordToParametersLoop(
                 Tail(keys),
                 AfterAppend(data, key, keep_input),
                 appended, keep_input)

\* parametersrecord_to_parameters(record, keep_input)
parametersrecord_to_parameters(data, keep_input) ==
    RecordToParametersLoop([i \in 1..Len(data) |-> data[i].key], data,
                           [tensors |-> <<>>, tensor_type |-> ""],
                           keep_input)

\* The tensor of iteration idx: parameters.tensors[idx] when the input is
\* kept, parameters.tensors.pop(0) otherwise.
TensorPopLast(tensors, idx, keep_input) ==
    IF keep_input THEN tensors[idx + 1] ELSE Last(tensors)
TensorOf(tensors, idx, keep_input) ==
    IF keep_input THEN tensors[idx + 1] ELSE Head(tensors)

\* A key that counts from one.
RecordKeyFromOne(idx) == ToString(idx + 1)
\* str(idx)
RecordKey(idx) == ToString(idx)

\* for idx in range(num_arrays): take the tensor and set
\* p_record[str(idx)] = Array(data=tensor, dtype="", stype=tensor_type,
\* shape=[]); stype is tensor_type, keep is keep_input.  The outcome is
\* the record and the tensors afterwards.
RECURSIVE ParametersToRecordLoop(_, _, _, _, _, _)
ParametersToRecordLoop(idx, num_arrays, tensors, stype, p_record, keep) ==
    IF idx >= num_arrays
    THEN [data |-> p_record, tensors |-> tensors]
    ELSE LET tensor == TensorOf(tensors, idx, keep)
         IN  ParametersToRecordLoop(
                 idx + 1, num_arrays,
                 IF keep THEN tensors ELSE Tail(tensors),
                 stype,
                 DictSetItem(p_record, RecordKey(idx),
                             Array(tensor, "", stype, <<>>)),
                 keep)

\* parameters_to_parametersrecord(parameters, keep_input)
parameters_to_parametersrecord(parameters, keep_input) ==
    ParametersToRecordLoop(0, Len(parameters.tensors), parameters.tensors,
                           parameters.tensor_type, <<>>, keep_input)

\* The tensor types of the Parameters callers build themselves.
TensorTypes == {"numpy.ndarray", ""}

\* An empty ParametersRecord, nothing converted yet.  record is the
\* record, source the record as it was when it was converted, parameters
\* the Parameters made from it, given the Parameters as they were when
\* they were converted, back the record made from those, keep_input the
\* argument of the last conversion.
NewConversion ==
    [pc |-> "record", record |-> <<>>, source |-> <<>>,
     parameters |-> [tensors |-> <<>>, tensor_type |-> ""],
     given |-> [tensors |-> <<>>, tensor_type |-> ""], back |-> <<>>,
     keep_input |-> FALSE]

\* ----------------------------------------------------------- DP wrapper
\* (src/py/flwr/server/strategy/dp_strategy_wrapper_fixed_clipping.py)
\* NDArrays is a sequence of layers; a layer here is one integer element,
\* for which the L2 norm is the absolute value.  Parameters is
\* [tensors, tensor_type] with one blob per layer.

\* largest clipping_norm given to the constructor
MaxClip == 1
\* largest num_sampled_clients, and number of results of a round
MaxClients == 2
\* largest parameter value of a layer
MaxParam == 2

Abs(x) == IF x < 0 THEN 0 - x ELSE x
Min(a, b) == IF a < b THEN a ELSE b

\* parameters_to_ndarrays / ndarrays_to_parameters: a blob per layer.
parameters_to_ndarrays(parameters) ==
    [i \in 1..Len(parameters.tensors) |-> parameters.tensors[i].blob]
ndarrays_to_parameters(ndarrays) ==
    [tensors |-> [i \in 1..Len(ndarrays) |-> [blob |-> ndarrays[i]]],
     tensor_type |-> "numpy.ndarray"]

\* The Parameters of model values: one layer.
ParametersOf(x) == ndarrays_to_parameters(<<x>>)

\* clip_inputs(update, clipping_norm): a new list, the update scaled by
\* min(1, clipping_norm / norm).
get_norm(update) == IF update = <<>> THEN 0 ELSE Abs(update[1])
clip_inputs(update, clipping_norm) ==
    IF get_norm(update) <= clipping_norm THEN update
    ELSE [i \in 1..Len(update) |->
             IF update[i] < 0 THEN 0 - clipping_norm ELSE clipping_norm]

\* _compute_model_updates: per client, np.subtract(x, y) over
\* zip(client_param, current_round_params).
compute_model_updates(all_clients_params, current_round_params) ==
    [c \in 1..Len(all_clients_params) |->
        [i \in 1..Min(Len(all_clients_params[c]), Len(current_round_params))
            |-> all_clients_params[c][i] - current_round_params[i]]]

\* for client_update in all_clients_updates:
\*     client_update = clip_inputs(client_update, self.clipping_norm)
\* The loop variable is bound to the new list clip_inputs returns; the
\* elements of all_clients_updates are not replaced.
ClipUpdates(all_clients_updates, clipping_norm) ==
    LET client_update ==
            [c \in 1..Len(all_clients_updates) |->
                clip_inputs(all_clients_updates[c], clipping_norm)]
    IN  all_clients_updates

\* _update_clients_params: client_param[i] = current_round_params[i] +
\* client_update[i] for every layer of current_round_params.
update_clients_params(client_param, client_update, current_round_params) ==
    [i \in 1..Len(client_param) |->
        IF i <= Len(current_round_params)
        THEN current_round_params[i] + client_update[i]
        ELSE client_param[i]]

\* aggregate_fit up to the call of the inner strategy: the Parameters of
\* the results handed to self.strategy.aggregate_fit.
SanitizedResults(results, current_round_params, clipping_norm) ==
    LET clients_params ==
            [c \in 1..Len(results) |-> parameters_to_ndarrays(results[c])]
        all_clients_updates ==
            ClipUpdates(compute_model_updates(clients_params,
                                              current_round_params),
                        clipping_norm)
    IN  [c \in 1..Len(results) |->
            ndarrays_to_parameters(
                update_clients_params(clients_params[c],
                                      all_clients_updates[c],
                                      current_round_params))]

\* What self.strategy.configure_fit(server_round, parameters,
\* client_manager) returns: instructions that carry the parameters, for
\* the clients the inner strategy samples.
InnerConfigureFit(parameters, clients) ==
    [parameters |-> parameters, clients |-> clients]

\* A configure_fit that keeps the parameters of the first round.
FirstRoundParams(current_round_params, parameters) ==
    IF current_round_params = <<>> THEN parameters_to_ndarrays(parameters)
    ELSE current_round_params
\* configure_fit: self.current_round_params =
\* parameters_to_ndarrays(parameters)
CurrentRoundParams(current_round_params, parameters) ==
    parameters_to_ndarrays(parameters)

\* No configure_fit call made.  parameters is the argument of the call,
\* inner what the inner strategy returned, returned what the wrapper
\* returned.
NoConfigureFit ==
    [called |-> FALSE, parameters |-> ParametersOf(0),
     inner |-> InnerConfigureFit(ParametersOf(0), 0),
     returned |-> InnerConfigureFit(ParametersOf(0), 0)]

\* No inner call made / returned value of aggregate_fit.
NoInnerCall == [called |-> FALSE, results |-> <<>>, failures |-> FALSE]

\* The arguments of a constructor call.
Arguments(noise_multiplier, clipping_norm, num_sampled_clients) ==
    [noise_multiplier |-> noise_multiplier, clipping_norm |-> clipping_norm,
     num_sampled_clients |-> num_sampled_clients]

\* The checks of __init__ with noise_multiplier = 0 refused.
ConstructorRaisesOnZeroNoise(args) ==
    \/ args.noise_multiplier <= 0
    \/ args.clipping_norm <= 0
    \/ args.num_sampled_clients <= 0

\* __init__: the three checks, each raising ValueError.
ConstructorRaises(args) ==
    \/ args.noise_multiplier < 0
    \/ args.clipping_norm <= 0
    \/ args.num_sampled_clients <= 0

\* Before the constructor is called.  args are the arguments of the
\* constructor call, configure is the last configure_fit call; results,
\* failures, updates, inner and returned describe the last aggregate_fit
\* call of the round that configure_fit started: failures tells whether
\* it was given a non-empty failures list, updates are the client
\* updates it computed.
NoWrapper ==
    [pc |-> "new", noise_multiplier |-> 0, clipping_norm |-> 0,
     num_sampled_clients |-> 0, current_round_params |-> <<>>,
     results |-> <<>>, inner |-> NoInnerCall, returned |-> "none",
     args |-> Arguments(0, 0, 0), failures |-> FALSE,
     configure |-> NoConfigureFit, updates |-> <<>>]

\* --------------------------------------------------- DirichletPartitioner
\* (datasets/flwr_datasets/partitioner/dirichlet_partitioner.py)
\* A partitioner is its attributes, the position of its caller (pc), the
\* argument and the outcome of the last load_partition (node_id, raised,
\* returned) and a history flag (changed).  dataset is the partition_by
\* column of the dataset; its rows are numbered from 0.

\* number of rows of the largest dataset
MaxRows == 3
\* largest num_partitions
MaxPartitions == 2
\* largest min_partition_size
MaxMinSize == 2

Classes == {"cat", "dog"}
Columns == UNION {[1..n -> Classes] : n \in 0..MaxRows}
Seeds == {42}
Partitioners == {1, 2}

\* The proportions np.random.dirichlet returns are modelled in steps of
\* 1 / Resolution, which yields every split of MaxRows rows.
Resolution == MaxRows

\* {}
EmptyDict == [nid \in {} |-> <<>>]

NoPartitioner == [pc |-> "none", dataset |-> <<>>, num_partitions |-> 0, min_partition_size |-> 0, self_balancing |-> FALSE, seed |-> 0, node_id_to_indices |-> EmptyDict, determined |-> FALSE, node_id |-> 0, raised |-> "none", returned |-> <<>>, changed |-> FALSE, redrawn |-> FALSE]

NoPartitioners == [i \in Partitioners |-> NoPartitioner]

\* __init__, and the assignment of the dataset.  alpha and shuffle are
\* stored and have no effect on the set of possible assignments; seed is
\* stored and never read.  min_partition_size None is stored as 0.
DirichletPartitioner(dataset, num_partitions, min_partition_size, self_balancing, seed) == [NoPartitioner EXCEPT !.pc = "idle", !.dataset = dataset, !.num_partitions = num_partitions, !.min_partition_size = min_partition_size, !.self_balancing = self_balancing, !.seed = seed]

\* The elements of a set of integers, in ascending order.
RECURSIVE Ascending(_)
Ascending(S) ==
    IF S = {} THEN <<>>
    ELSE LET least == CHOOSE x \in S : \A y \in S : x <= y
         IN  <<least>> \o Ascending(S \ {least})

\* dataset.unique(partition_by): the classes in order of first appearance.
unique(column) ==
    LET firsts == {i \in 1..Len(column) :
                      \A j \in 1..(i - 1) : column[j] # column[i]}
    IN  [n \in 1..Cardinality(firsts) |-> column[Ascending(firsts)[n]]]

\* np.nonzero(targets == k)[0]: the row numbers of class k, ascending.
nonzero(column, k) ==
    Ascending({i \in 0..(Len(column) - 1) : column[i + 1] = k})

\* np.cumsum(proportions)[nid]
RECURSIVE cumsum(_, _)
cumsum(w, nid) == IF nid = 0 THEN w[0] ELSE cumsum(w, nid - 1) + w[nid]

\* np.random.dirichlet(alpha): any proportions that sum to 1, one per
\* partition.  The draw comes from numpy's process-wide generator, which
\* the partitioner does not seed.
dirichlet(num_partitions) ==
    {w \in [0..(num_partitions - 1) -> 0..Resolution] :
        cumsum(w, num_partitions - 1) = Resolution}

\* (cumsum_division_fractions * len(indices)).astype(int)[nid]
cumsum_division_numbers(w, n, nid) == (cumsum(w, nid) * n) \div Resolution

\* np.split whose pieces all start at the first index.
split_indices_overlapping(indices, w, nid) ==
    SubSeq(indices, 1,
           IF nid = Cardinality(DOMAIN w) - 1 THEN Len(indices)
           ELSE cumsum_division_numbers(w, Len(indices), nid))

\* np.split(indices, indices_on_which_split)[nid]: the split points are
\* the cumsum numbers without the last one.
split_indices(indices, w, nid) ==
    SubSeq(indices,
           (IF nid = 0 THEN 0
            ELSE cumsum_division_numbers(w, Len(indices), nid - 1)) + 1,
           IF nid = Cardinality(DOMAIN w) - 1 THEN Len(indices)
           ELSE cumsum_division_numbers(w, Len(indices), nid))

\* node_id_to_indices[nid].extend(split_indices[nid]) for class k.
ExtendWithClass(dataset, table, k, w) ==
    [nid \in DOMAIN table |->
        table[nid] \o split_indices(nonzero(dataset, k), w, nid)]

\* for k in self._unique_classes, without self-balancing: the tables the
\* draws can produce.
RECURSIVE ForEachClass(_, _, _)
ForEachClass(p, classes, table) ==
    IF classes = <<>> THEN {table}
    ELSE UNION {ForEachClass(p, Tail(classes),
                    ExtendWithClass(p.dataset, table, Head(classes), w)) :
                  w \in dirichlet(p.num_partitions)}

\* One pass of the body of `while True` up to the size test: its
\* outcomes [raised, table].  With self_balancing the first class
\* reaches nid_to_proportion_of_k_samples.values().sum(); dict_values has
\* no sum, which raises AttributeError.
SamplingPass(p) ==
    LET classes == unique(p.dataset)
        empty == [nid \in 0..(p.num_partitions - 1) |-> <<>>]
    IN  IF p.self_balancing /\ classes # <<>>
        THEN {[raised |-> "AttributeError", table |-> empty]}
        ELSE {[raised |-> "none", table |-> t] :
                t \in ForEachClass(p, classes, empty)}

max_sample_size_on_client(table) ==
    CHOOSE m \in {Len(table[nid]) : nid \in DOMAIN table} :
        \A nid \in DOMAIN table : m >= Len(table[nid])

\* min(len(indices) for indices in node_id_to_indices.values())
min_sample_size_on_client(table) ==
    CHOOSE m \in {Len(table[nid]) : nid \in DOMAIN table} :
        \A nid \in DOMAIN table : m <= Len(table[nid])

\* A size test that every assignment passes.
BreakUnconditionally(table, min_partition_size) == TRUE

\* if min_sample_size_on_client >= self._min_partition_size: break
BreakCondition(table, min_partition_size) ==
    min_sample_size_on_client(table) >= min_partition_size

\* The partitioner after one pass: the exception propagates; a table
\* that fails the size test is dropped and the loop goes round; a table
\* that passes is stored and load_partition returns its selection.
\* changed records that a stored table was replaced by a different one,
\* redrawn that the running call dropped a table; the loop keeps no count.
AfterPass(p, draw) ==
    IF draw.raised # "none"
    THEN [p EXCEPT !.pc = "idle", !.raised = draw.raised]
    ELSE IF ~BreakCondition(draw.table, p.min_partition_size)
    THEN [p EXCEPT !.redrawn = TRUE]
    ELSE [p EXCEPT !.pc = "idle",
                   !.node_id_to_indices = draw.table,
                   !.determined = TRUE,
                   !.returned = draw.table[p.node_id],
                   !.changed = \/ p.changed
                               \/ /\ p.determined
                                  /\ draw.table # p.node_id_to_indices]

\* ---------------------------------------------------------------- Init
Init ==
    /\ engine = "init"
    /\ num_supernodes \in 1..MaxNodes
    /\ num_actors \in 1..MaxActors
    /\ nodes_mapping = <<>>
    /\ node_states = <<>>
    /\ task_ins_store = <<>>
    /\ delivered = {}
    /\ task_res_store = <<>>
    /\ queue = <<>>
    /\ pull = [pc |-> "none", idx |-> 0, item |-> NoTask]
    /\ workers = <<>>
    /\ pool_free = 0
    /\ futures = <<>>
    /\ next_future = 0
    /\ enq = <<>>
    /\ failed = {}
    /\ shutdown = FALSE
    /\ overdue = {}
    /\ typed_dict = NewTypedDict
    /\ conv = NewConversion
    /\ dp = NoWrapper
    /\ part = NoPartitioners

\* ------------------------------------------------------------- run_vce
\* for i in range(num_nodes): i is the number of nodes registered so far.
LoopIndexZero(registered) == 0
LoopIndex(registered) == Cardinality(registered)

\* _register_nodes, one iteration: nodes_mapping[create_node()] = i; the
\* store knows the node from then on.
RegisterNode ==
    /\ engine = "init"
    /\ Cardinality(Nodes) < num_supernodes
    /\ LET node_id == CreateNode(Nodes)
           i == LoopIndex(Nodes)
       IN  /\ nodes_mapping' =
                 [n \in Nodes \cup {node_id} |->
                     IF n = node_id THEN i ELSE nodes_mapping[n]]
           /\ task_ins_store' =
                 [n \in Nodes \cup {node_id} |->
                     IF n = node_id THEN <<>> ELSE task_ins_store[n]]
           /\ task_res_store' =
                 [n \in Nodes \cup {node_id} |->
                     IF n = node_id THEN <<>> ELSE task_res_store[n]]
    /\ UNCHANGED <<libVars, shutdown, overdue,
                   engine, num_supernodes, num_actors, node_states,
                   delivered, queue, pull, workers, pool_free, futures,
                   next_future, enq, failed>>

\* run(): one worker task per actor, range(pool.num_actors).
NumWorkersPlusOne == num_actors + 1
NumWorkers == num_actors

\* run_vce after registration, and run() up to the gather: one NodeState
\* per node, the queue, the pool with its actors, the workers, the pull
\* loop (created, and started at the first suspension of run).
\* queue.join() returns at once: nothing was put yet.
RunVce ==
    /\ engine = "init"
    /\ Cardinality(Nodes) = num_supernodes
    /\ engine' = "running"
    /\ node_states' = [n \in Nodes |-> <<>>]
    /\ queue' = <<>>
    /\ pool_free' = num_actors
    /\ workers' = [w \in 1..NumWorkers |-> IdleWorker]
    /\ pull' = [pc |-> "sleep", idx |-> 0, item |-> NoTask]
    /\ enq' = [n \in Nodes |-> <<>>]
    /\ UNCHANGED <<libVars, shutdown, overdue,
                   num_supernodes, num_actors, nodes_mapping, task_ins_store,
                   delivered, task_res_store, futures, next_future, failed>>

\* asyncio.gather(*worker_tasks) returns once every worker has left its
\* loop; run() returns and asyncio.run cancels the pull loop.
RunReturns ==
    /\ engine = "running"
    /\ \A w \in DOMAIN workers : workers[w].pc = "exited"
    /\ engine' = "terminated"
    /\ pull' = [pc |-> "cancelled", idx |-> 0, item |-> NoTask]
    /\ UNCHANGED <<libVars, shutdown, overdue,
                   num_supernodes, num_actors, nodes_mapping, node_states,
                   task_ins_store, delivered, task_res_store, queue, workers,
                   pool_free, futures, next_future, enq, failed>>

\* -------------------------------------------------------------- driver
\* The run ids in use, and the next unused one: run ids carry no meaning
\* beyond their identity, so a new run takes the next id.
RunsInUse(runs) ==
    {r \in runs : r <= 1 + Cardinality({t.run_id : t \in AllTasks})}

\* The envelope the driver gives the k-th instruction of a node: the
\* group (round), the ttl and the task type differ between instructions.
GroupOf(k) == 10 + k
TtlOf(k) == 20 + k
TaskTypeOf(k) == IF k % 2 = 1 THEN "fit" ELSE "evaluate"

\* store_task_ins by the driver while the engine runs, for a registered
\* node and a run of runs; limit bounds the number of instructions of a
\* run of the model.
StoreTaskIns(limit, runs) ==
    /\ engine = "running"
    /\ Cardinality(AllTasks) < limit
    /\ \E node_id \in Nodes, run_id \in RunsInUse(runs) :
          task_ins_store' =
              [task_ins_store EXCEPT ![node_id] =
                  Append(@, [task_id |-> TaskId(node_id, Len(@) + 1),
                             node_id |-> node_id, run_id |-> run_id,
                             group_id |-> GroupOf(Len(@) + 1),
                             ttl |-> TtlOf(Len(@) + 1),
                             task_type |-> TaskTypeOf(Len(@) + 1)])]
    /\ UNCHANGED <<libVars, shutdown, overdue,
                   engine, num_supernodes, num_actors, nodes_mapping,
                   node_states, delivered, task_res_store, queue, pull,
                   workers, pool_free, futures, next_future, enq, failed>>

\* ------------------------------------------------ generate_pull_requests
\* An iteration that yields the first key every time.
NodeAtFirst(i) == CHOOSE n \in Nodes : nodes_mapping[n] = 0
\* nodes_mapping.keys() iterates in insertion order: by partition index.
NodeAt(i) == CHOOSE n \in Nodes : nodes_mapping[n] = i

\* asyncio.Queue(64).full(): put suspends while this holds.
QueueNeverFull(q) == FALSE
QueueFull(q) == Len(q) >= QueueMaxSize

\* After the for loop: the log line, asyncio.sleep(1.0), and the while
\* loop starts the next cycle.
PullLoopReturns == [pc |-> "done", idx |-> 0, item |-> NoTask]
PullAfterLoop == [pc |-> "sleep", idx |-> 0, item |-> NoTask]

\* The state store marks what get_task_ins returns as delivered, so that no
\* later poll returns it again.
MarkNothingDelivered(dlv, task_ins) == dlv
MarkDelivered(dlv, task_ins) ==
    dlv \cup {task_ins[i].task_id : i \in 1..Len(task_ins)}

\* The for loop from the node at idx on, which runs without suspending
\* until a put finds the queue full: each node is polled, and a returned
\* instruction is put on the queue.  dlv, q and e are the delivered ids,
\* the queue and the enqueue history so far.
RECURSIVE PullFrom(_, _, _, _)
PullFrom(idx, dlv, q, e) ==
    IF idx >= Cardinality(Nodes)
    THEN [delivered |-> dlv, queue |-> q, enq |-> e, pull |-> PullAfterLoop]
    ELSE LET node_id == NodeAt(idx)
             task_ins == GetTaskIns(dlv, node_id, PollLimit)
             dlv2 == MarkDelivered(dlv, task_ins)
         IN  IF task_ins = <<>>
             THEN PullFrom(idx + 1, dlv2, q, e)
             ELSE IF QueueFull(q)
             THEN [delivered |-> dlv2, queue |-> q, enq |-> e,
                   pull |-> [pc |-> "put", idx |-> idx, item |-> task_ins[1]]]
             ELSE PullFrom(idx + 1, dlv2, Append(q, task_ins[1]),
                           [e EXCEPT ![node_id] =
                               Append(@, task_ins[1].task_id)])

\* The sleep ends and one cycle of the while loop runs, to the next sleep
\* or to a put that suspends.
PullCycle ==
    /\ engine = "running"
    /\ pull.pc = "sleep"
    /\ LET r == PullFrom(0, delivered, queue, enq)
       IN  /\ delivered' = r.delivered
           /\ queue' = r.queue
           /\ enq' = r.enq
           /\ pull' = r.pull
    /\ UNCHANGED <<libVars, shutdown, overdue,
                   engine, num_supernodes, num_actors, nodes_mapping,
                   node_states, task_ins_store, task_res_store, workers,
                   pool_free, futures, next_future, failed>>

\* The suspended queue.put resumes once the queue has room, and the for
\* loop goes on.
PullPut ==
    /\ engine = "running"
    /\ pull.pc = "put"
    /\ ~QueueFull(queue)
    /\ LET node_id == pull.item.node_id
           r == PullFrom(pull.idx + 1, delivered, Append(queue, pull.item),
                         [enq EXCEPT ![node_id] =
                             Append(@, pull.item.task_id)])
       IN  /\ delivered' = r.delivered
           /\ queue' = r.queue
           /\ enq' = r.enq
           /\ pull' = r.pull
    /\ UNCHANGED <<libVars, shutdown, overdue,
                   engine, num_supernodes, num_actors, nodes_mapping,
                   node_states, task_ins_store, task_res_store, workers,
                   pool_free, futures, next_future, failed>>

\* ---------------------------------------------------- actor pool (§4.7)
\* is_actor_available(): some actor is idle.
IsActorAvailable == pool_free > 0

\* submit_if_actor_is_free hands out a future when an actor is idle, and
\* None when all actors are busy.
SubmitReturnsFuture == pool_free > 0

\* fetch_result_and_return_actor puts the actor of the future back in the
\* pool, whether the execution returned or raised.
ActorNotReturned(free) == free
ActorReturned(free) == free + 1

\* futures without future f (future_to_actor.pop).
DropFuture(f) == [g \in DOMAIN futures \ {f} |-> futures[g]]

\* --------------------------------------------------------------- worker
\* The worker after the submit: suspended in asyncio.wait([future]) until
\* the execution is over, holding the instruction and its future.
WorkerNotWaiting(task_ins, run_state, f, prev) ==
    [pc |-> "get", task_ins |-> task_ins, run_state |-> run_state,
     future |-> f, err |-> "none", prev |-> prev]
WorkerWaiting(task_ins, run_state, f, prev) ==
    [pc |-> "wait", task_ins |-> task_ins, run_state |-> run_state,
     future |-> f, err |-> "none", prev |-> prev]

\* node_states[node_id].update_context(task_ins.run_id, context=...).
ContextNotStored(node_id, run_id, ctx) == node_states
ContextStored(node_id, run_id, ctx) ==
    [node_states EXCEPT ![node_id] = UpdateContext(@, run_id, ctx)]

\* The except clause of the worker: the exception raised by
\* fetch_result_and_return_actor skips update_context and the storing of
\* the TaskRes, so the registry keeps what it held.
ContextStoredOnException(node_id, run_id, ctx) ==
    [node_states EXCEPT ![node_id] = UpdateContext(@, run_id, ctx)]
ContextOnException(node_id, run_id, ctx) == node_states

\* The future the worker fetches: the one its submit returned.
OldestFuture(w) ==
    CHOOSE f \in DOMAIN futures : \A g \in DOMAIN futures : f <= g
FutureOf(w) == workers[w].future

\* queue.get() returns; the availability assertion; the node's context is
\* registered and retrieved; the TaskIns is converted to a Message;
\* pool.submit_if_actor_is_free with (app, message, str(node_id),
\* run_state); the assertion that a future came back; the worker then
\* suspends in asyncio.wait([future]).  Nothing suspends in between.  A
\* failed assertion is caught by the except clause, which breaks.
\* The workers waiting in queue.get() are in the same state and run the
\* same code, so the instruction goes to the first of them.
WorkerDispatch(w) ==
    /\ engine = "running"
    /\ workers[w].pc = "get"
    /\ \A v \in DOMAIN workers : workers[v].pc = "get" => w <= v
    /\ queue # <<>>
    /\ queue' = Tail(queue)
    /\ LET task_ins == Head(queue)
           node_id == task_ins.node_id
           ns == RegisterContext(node_states[node_id], task_ins.run_id)
           run_state == RetrieveContext(ns, task_ins.run_id)
           message == taskins_to_message(task_ins, nodes_mapping[node_id])
           f == next_future + 1
       IN  IF ~IsActorAvailable
           THEN /\ workers' = [workers EXCEPT
                                  ![w] = ExitedWorker("assert_available")]
                /\ UNCHANGED <<node_states, pool_free, next_future, futures>>
           ELSE IF ~SubmitReturnsFuture
           THEN /\ node_states' = [node_states EXCEPT ![node_id] = ns]
                /\ workers' = [workers EXCEPT
                                  ![w] = ExitedWorker("assert_future")]
                /\ UNCHANGED <<pool_free, next_future, futures>>
           ELSE /\ node_states' = [node_states EXCEPT ![node_id] = ns]
                /\ pool_free' = pool_free - 1
                /\ next_future' = f
                /\ futures' =
                      [g \in DOMAIN futures \cup {f} |->
                          IF g = f
                          THEN [task_id |-> task_ins.task_id,
                                message |-> message,
                                cid |-> ToString(node_id),
                                run_state |-> run_state, worker |-> w]
                          ELSE futures[g]]
                /\ workers' = [workers EXCEPT ![w] =
                      WorkerWaiting(task_ins, run_state, f,
                                    LastCompleted(node_id, task_ins.run_id))]
    /\ UNCHANGED <<libVars, shutdown, overdue,
                   engine, num_supernodes, num_actors, nodes_mapping,
                   task_ins_store, delivered, task_res_store, pull, enq,
                   failed>>

\* The executor has run the client app: asyncio.wait([future]) returns,
\* fetch_result_and_return_actor hands the actor back and yields the
\* reply and the updated context; update_context; the TaskRes is
\* configured and stored; the worker loops back to queue.get().
WorkerFetch(w) ==
    /\ engine = "running"
    /\ workers[w].pc = "wait"
    /\ LET f == FutureOf(w)
           task_ins == workers[w].task_ins
           node_id == task_ins.node_id
           result == ClientAppRun(futures[f].message, futures[f].run_state)
           task_res == message_to_taskres(result.out_mssg)
       IN  /\ futures' = DropFuture(f)
           /\ pool_free' = ActorReturned(pool_free)
           /\ node_states' =
                 ContextStored(node_id, task_ins.run_id,
                               result.updated_context)
           /\ task_res_store' =
                 [task_res_store EXCEPT ![node_id] =
                     Append(@, ConfigureTaskRes(task_res, task_ins, node_id))]
           /\ workers' = [workers EXCEPT ![w] = IdleWorker]
    /\ UNCHANGED <<libVars, shutdown, overdue,
                   engine, num_supernodes, num_actors, nodes_mapping,
                   task_ins_store, delivered, queue, pull, next_future, enq,
                   failed>>

\* The client app raised inside the executor: asyncio.wait([future])
\* returns, fetch_result_and_return_actor hands the actor back and raises;
\* the except clause logs the exception and breaks out of the loop.
WorkerFetchRaises(w) ==
    /\ engine = "running"
    /\ workers[w].pc = "wait"
    /\ LET f == FutureOf(w)
           task_ins == workers[w].task_ins
           raised == ClientAppRun(futures[f].message, futures[f].run_state)
       IN  /\ futures' = DropFuture(f)
           /\ pool_free' = ActorReturned(pool_free)
           /\ failed' = failed \cup {futures[f].task_id}
           /\ node_states' =
                 ContextOnException(task_ins.node_id, task_ins.run_id,
                                    raised.updated_context)
           /\ workers' = [workers EXCEPT ![w] = ExitedWorker("executor")]
    /\ UNCHANGED <<libVars, shutdown, overdue,
                   engine, num_supernodes, num_actors, nodes_mapping,
                   task_ins_store, delivered, task_res_store,
                   queue, pull, next_future, enq>>

\* ------------------------------------------------------ specifications
\* The engine with a driver that stores up to MaxTasks instructions (the
\* queue then never fills, and no put suspends).
Next ==
    \/ RegisterNode
    \/ RunVce
    \/ RunReturns
    \/ StoreTaskIns(MaxTasks, Runs)
    \/ PullCycle
    \/ \E w \in DOMAIN workers : WorkerDispatch(w)
    \/ \E w \in DOMAIN workers : WorkerFetch(w)
    \/ \E w \in DOMAIN workers : WorkerFetchRaises(w)

Spec == Init /\ [][Next]_vars

\* The engine with one node, one actor and a driver that stores more
\* instructions than the queue holds.
InitBackpressure == Init /\ num_supernodes = 1 /\ num_actors = 1

NextBackpressure ==
    \/ RegisterNode
    \/ RunVce
    \/ RunReturns
    \/ StoreTaskIns(MaxBacklog, {1})
    \/ PullCycle
    \/ PullPut
    \/ \E w \in DOMAIN workers : WorkerDispatch(w)
    \/ \E w \in DOMAIN workers : WorkerFetch(w)
    \/ \E w \in DOMAIN workers : WorkerFetchRaises(w)

SpecBackpressure == InitBackpressure /\ [][NextBackpressure]_vars

\* The engine with an always-available pool (no execution raises), under
\* fair scheduling of run_vce, the pull loop and every worker.  Scheduling
\* does not read run ids, so the driver stores instructions of one run.
NextLive ==
    \/ RegisterNode
    \/ RunVce
    \/ StoreTaskIns(MaxTasks, {1})
    \/ PullCycle
    \/ \E w \in DOMAIN workers : WorkerDispatch(w)
    \/ \E w \in DOMAIN workers : WorkerFetch(w)

Fairness ==
    /\ WF_vars(RegisterNode)
    /\ WF_vars(RunVce)
    /\ WF_vars(PullCycle)
    /\ \A w \in 1..MaxActors :
          /\ WF_vars(w \in DOMAIN workers /\ WorkerDispatch(w))
          /\ WF_vars(w \in DOMAIN workers /\ WorkerFetch(w))

SpecLive == Init /\ [][NextLive]_vars /\ Fairness

\* ---------------------------------------------------------- environment
\* A shutdown of the engine is requested.  run(), the workers and the
\* pull loop have no code that observes a request: nothing else changes.
ShutdownSignal ==
    /\ engine = "running"
    /\ ~shutdown
    /\ shutdown' = TRUE
    /\ UNCHANGED <<libVars, overdue, engine, num_supernodes, num_actors,
                   nodes_mapping, node_states, task_ins_store, delivered,
                   task_res_store, queue, pull, workers, pool_free, futures,
                   next_future, enq, failed>>

\* The execution a worker waits for has run longer than its message's
\* ttl.  asyncio.wait([future]) has no timeout and the pool is given no
\* deadline: nothing else changes.
TtlExpires(w) ==
    /\ engine = "running"
    /\ workers[w].pc = "wait"
    /\ futures[FutureOf(w)].message.ttl > 0
    /\ workers[w].task_ins.task_id \notin overdue
    /\ overdue' = overdue \cup {workers[w].task_ins.task_id}
    /\ UNCHANGED <<libVars, shutdown, engine, num_supernodes, num_actors,
                   nodes_mapping, node_states, task_ins_store, delivered,
                   task_res_store, queue, pull, workers, pool_free, futures,
                   next_future, enq, failed>>

\* The engine and a shutdown request, under fair scheduling of run(), the
\* pull loop and the workers.
NextShutdown ==
    \/ RegisterNode
    \/ RunVce
    \/ RunReturns
    \/ StoreTaskIns(MaxTasks, {1})
    \/ PullCycle
    \/ \E w \in DOMAIN workers : WorkerDispatch(w)
    \/ \E w \in DOMAIN workers : WorkerFetch(w)
    \/ \E w \in DOMAIN workers : WorkerFetchRaises(w)
    \/ ShutdownSignal

SpecShutdown ==
    Init /\ [][NextShutdown]_vars /\ Fairness /\ WF_vars(RunReturns)

\* The engine with executions that may outlast the ttl of their message.
NextTtl ==
    \/ RegisterNode
    \/ RunVce
    \/ StoreTaskIns(MaxTasks, {1})
    \/ PullCycle
    \/ \E w \in DOMAIN workers : WorkerDispatch(w)
    \/ \E w \in DOMAIN workers : WorkerFetch(w)
    \/ \E w \in DOMAIN workers : TtlExpires(w)

SpecTtl == Init /\ [][NextTtl]_vars

\* ---------------------------------------------------- TypedDict calls
SetItem ==
    /\ \E key \in TdKeys, value \in TdValues :
          typed_dict' = AfterCall("setitem", key, value,
                            TypedDict_setitem(typed_dict.data, key, value))
    /\ UNCHANGED <<vceVars, conv, dp, part>>

DelItem ==
    /\ \E key \in TdKeys :
          typed_dict' = AfterCall("delitem", key, NoValue,
                            TypedDict_delitem(typed_dict.data, key))
    /\ UNCHANGED <<vceVars, conv, dp, part>>

GetItem ==
    /\ \E key \in TdKeys :
          typed_dict' = AfterCall("getitem", key, NoValue,
                            TypedDict_getitem(typed_dict.data, key))
    /\ UNCHANGED <<vceVars, conv, dp, part>>

Pop ==
    /\ \E key \in TdKeys :
          typed_dict' = AfterCall("pop", key, NoValue,
                            TypedDict_pop(typed_dict.data, key))
    /\ UNCHANGED <<vceVars, conv, dp, part>>

Get ==
    /\ \E key \in TdKeys, default \in TdValues :
          typed_dict' = AfterCall("get", key, default,
                            TypedDict_get(typed_dict.data, key, default))
    /\ UNCHANGED <<vceVars, conv, dp, part>>

Update ==
    /\ \E entries \in Entries :
          typed_dict' = AfterUpdate(entries,
                            TypedDict_update(typed_dict.data, entries))
    /\ UNCHANGED <<vceVars, conv, dp, part>>

\* A TypedDict and its callers; the engine is not started.
InitTypedDict == Init /\ num_supernodes = 1 /\ num_actors = 1

NextTypedDict == SetItem \/ DelItem \/ GetItem \/ Pop \/ Get

SpecTypedDict == InitTypedDict /\ [][NextTypedDict]_vars

Clear ==
    /\ typed_dict' = AfterCall("clear", NoKey, NoValue,
                               TypedDict_clear(typed_dict.data))
    /\ UNCHANGED <<vceVars, conv, dp, part>>

\* A TypedDict and callers that also update it in bulk and clear it.
NextTypedDictUpdate == SetItem \/ DelItem \/ GetItem \/ Pop \/ Get \/ Update \/ Clear

SpecTypedDictUpdate == InitTypedDict /\ [][NextTypedDictUpdate]_vars

\* ------------------------------------------------- recordset_utils calls
\* ParametersRecord.set_parameters with one Array under a key.
SetParameters ==
    /\ conv.pc = "record"
    /\ Len(conv.record) < MaxArrays
    /\ \E key \in ArrayKeys, array \in Arrays :
          conv' = [conv EXCEPT !.record = DictSetItem(@, key, array)]
    /\ UNCHANGED <<vceVars, typed_dict, dp, part>>

RecordToParameters ==
    /\ conv.pc = "record"
    /\ \E keep_input \in BOOLEAN :
          LET r == parametersrecord_to_parameters(conv.record, keep_input)
          IN  conv' = [conv EXCEPT !.pc = "parameters",
                                   !.source = conv.record,
                                   !.record = r.data,
                                   !.parameters = r.parameters,
                                   !.keep_input = keep_input]
    /\ UNCHANGED <<vceVars, typed_dict, dp, part>>

ParametersToRecord ==
    /\ conv.pc = "parameters"
    /\ \E keep_input \in BOOLEAN :
          LET r == parameters_to_parametersrecord(conv.parameters,
                                                  keep_input)
          IN  conv' = [conv EXCEPT !.pc = "back",
                                   !.given = conv.parameters,
                                   !.parameters.tensors = r.tensors,
                                   !.back = r.data,
                                   !.keep_input = keep_input]
    /\ UNCHANGED <<vceVars, typed_dict, dp, part>>

\* A ParametersRecord that is filled, converted to Parameters and back;
\* the engine is not started.
InitConversion == Init /\ num_supernodes = 1 /\ num_actors = 1

NextConversion == SetParameters \/ RecordToParameters \/ ParametersToRecord

SpecConversion == InitConversion /\ [][NextConversion]_vars

\* Parameters(tensors, tensor_type) built by the caller, not from a
\* record.
NewParameters ==
    /\ conv.pc = "record"
    /\ conv.record = <<>>
    /\ \E n \in 0..MaxArrays :
          \E tensors \in [1..n -> 1..MaxBlobs], tensor_type \in TensorTypes :
              conv' = [conv EXCEPT !.pc = "parameters",
                                   !.parameters = [tensors |-> tensors,
                                       tensor_type |-> tensor_type],
                                   !.keep_input = TRUE]
    /\ UNCHANGED <<vceVars, typed_dict, dp, part>>

\* Records and Parameters of either origin, and their conversions.
NextParameters == SetParameters \/ RecordToParameters \/ ParametersToRecord \/ NewParameters

SpecParameters == InitConversion /\ [][NextParameters]_vars

\* ------------------------------------------------------ DP wrapper calls
\* __init__: the three checks raise ValueError; otherwise the arguments
\* are kept and current_round_params is the empty list.
Construct ==
    /\ dp.pc = "new"
    /\ \E noise_multiplier \in -1..1, clipping_norm \in 0..MaxClip,
          num_sampled_clients \in 0..MaxClients :
          LET args == Arguments(noise_multiplier, clipping_norm,
                                num_sampled_clients)
          IN  IF ConstructorRaises(args)
              THEN dp' = [dp EXCEPT !.pc = "ValueError", !.args = args]
              ELSE dp' = [dp EXCEPT
                             !.pc = "ready",
                             !.args = args,
                             !.noise_multiplier = noise_multiplier,
                             !.clipping_norm = clipping_norm,
                             !.num_sampled_clients = num_sampled_clients,
                             !.current_round_params = <<>>]
    /\ UNCHANGED <<vceVars, typed_dict, conv, part>>

\* configure_fit: keeps the decoded parameters of the round and returns
\* what the inner strategy's configure_fit returns.
ConfigureFit ==
    /\ dp.pc = "ready"
    /\ \E x \in 0..MaxParam :
          LET inner == InnerConfigureFit(ParametersOf(x),
                                         dp.num_sampled_clients)
          IN  dp' = [dp EXCEPT
                        !.current_round_params =
                            CurrentRoundParams(@, ParametersOf(x)),
                        !.configure = [called |-> TRUE,
                                       parameters |-> ParametersOf(x),
                                       inner |-> inner,
                                       returned |-> inner],
                        !.results = <<>>,
                        !.failures = FALSE,
                        !.updates = <<>>,
                        !.inner = NoInnerCall,
                        !.returned = "none"]
    /\ UNCHANGED <<vceVars, typed_dict, conv, part>>

\* The lists of results of a round: up to MaxClients client parameters.
ResultLists ==
    UNION {[1..n -> {ParametersOf(x) : x \in 0..MaxParam}] :
               n \in 0..MaxClients}

\* aggregate_fit: with failures it returns (None, {}) at once; otherwise
\* the results are rewritten and handed to the inner strategy.
AggregateFit ==
    /\ dp.pc = "ready"
    /\ \E results \in ResultLists, failures \in BOOLEAN :
          IF failures
          THEN dp' = [dp EXCEPT !.results = results,
                                !.failures = failures,
                                !.updates = <<>>,
                                !.inner = NoInnerCall,
                                !.returned = "None"]
          ELSE dp' = [dp EXCEPT
                         !.results = results,
                         !.failures = failures,
                         !.updates = compute_model_updates(
                             [c \in 1..Len(results) |->
                                 parameters_to_ndarrays(results[c])],
                             dp.current_round_params),
                         !.inner = [called |-> TRUE,
                                    results |-> SanitizedResults(
                                        results, dp.current_round_params,
                                        dp.clipping_norm),
                                    failures |-> failures],
                         !.returned = "aggregated"]
    /\ UNCHANGED <<vceVars, typed_dict, conv, part>>

\* A DP wrapper and its callers; the engine is not started.
InitDp == Init /\ num_supernodes = 1 /\ num_actors = 1

NextDp == Construct \/ ConfigureFit \/ AggregateFit

SpecDp == InitDp /\ [][NextDp]_vars

\* ---------------------------------------------- DirichletPartitioner calls
\* Two partitioners are constructed with the same arguments over the
\* same dataset.
NewPartitioners ==
    /\ part[1].pc = "none"
    /\ \E dataset \in Columns, num_partitions \in 1..MaxPartitions,
          min_partition_size \in 0..MaxMinSize,
          self_balancing \in BOOLEAN, seed \in Seeds :
          part' = [i \in Partitioners |->
                      DirichletPartitioner(dataset, num_partitions,
                          min_partition_size, self_balancing, seed)]
    /\ UNCHANGED <<vceVars, typed_dict, conv, dp>>

\* load_partition(node_id) is called.
LoadPartition(i) ==
    /\ part[i].pc = "idle"
    /\ \E node_id \in 0..(part[i].num_partitions - 1) :
          part' = [part EXCEPT ![i].pc = "loading",
                               ![i].node_id = node_id,
                               ![i].raised = "none",
                               ![i].redrawn = FALSE]
    /\ UNCHANGED <<vceVars, typed_dict, conv, dp>>

\* _determine_node_id_to_indices_if_needed: the test of
\* _node_id_to_indices_determined guards only `pass`, so every call
\* samples; one step is one pass of the loop.
DetermineNodeIdToIndices(i) ==
    /\ part[i].pc = "loading"
    /\ \E draw \in SamplingPass(part[i]) :
          part' = [part EXCEPT ![i] = AfterPass(part[i], draw)]
    /\ UNCHANGED <<vceVars, typed_dict, conv, dp>>

\* One partitioner and its caller; the engine is not started.
InitPartitioner == Init /\ num_supernodes = 1 /\ num_actors = 1

NextPartitioner == NewPartitioners \/ LoadPartition(1) \/ DetermineNodeIdToIndices(1)

SpecPartitioner == InitPartitioner /\ [][NextPartitioner]_vars

\* Both partitioners and their callers.
NextPartitioners == NewPartitioners \/ (\E i \in Partitioners : LoadPartition(i)) \/ (\E i \in Partitioners : DetermineNodeIdToIndices(i))

SpecPartitioners == InitPartitioner /\ [][NextPartitioners]_vars

\* ---------------------------------------------------------------- claims
HasResult(task_id) ==
    \E n \in DOMAIN task_res_store :
        \E i \in 1..Len(task_res_store[n]) :
            task_res_store[n][i].ancestry = task_id

Running == {w \in DOMAIN workers : workers[w].pc # "exited"}

InFlight == {w \in DOMAIN workers : workers[w].pc = "wait"}

AllServed == \A t \in AllTasks : HasResult(t.task_id)

\* C1: with a pool whose executions all complete and fair scheduling,
\* every stored TaskIns eventually has a TaskRes referencing it in the
\* store.  Instructions and results are never removed from the store, so
\* this is: again and again every instruction stored so far has a result.
C1_SchedulerLiveness == []<>AllServed

C1_Witness ==
    /\ Cardinality(AllTasks) >= 3
    /\ \A t \in AllTasks : HasResult(t.task_id)
    /\ \E t, u \in AllTasks : t.node_id # u.node_id

\* C2: while the engine runs, the number of running worker loops equals
\* pool.num_actors (a task failure does not end a worker).
C2_WorkersKeepRunning ==
    engine = "running" => Cardinality(Running) = num_actors

\* C3: every TaskIns whose execution raised has a result referencing it in
\* the store once its worker has handled the exception.
C3_FailureResultStored == \A t \in failed : HasResult(t)

\* C4: after any number of executor failures the engine still serves
\* instructions: the pull loop is polling and a worker is running.
C4_FailuresNeverAbortEngine ==
    failed # {} =>
        /\ engine = "running"
        /\ pull.pc # "cancelled"
        /\ Running # {}

\* C5: no two workers are at the same time between retrieving and updating
\* the context for instructions of the same node.
C5_OneTaskPerNodeInFlight ==
    \A v, w \in InFlight :
        v # w => workers[v].task_ins.node_id # workers[w].task_ins.node_id

\* C6: the queue never holds more than its capacity, and while the engine
\* runs no delivered instruction is dropped or overwritten: each is in the
\* enqueue history or held by the suspended put, and the queue holds the
\* latest enqueued ones in order.
C6_Backpressure ==
    /\ Len(queue) <= QueueMaxSize
    /\ pull.pc = "put" => pull.item.task_id \in delivered
    /\ engine = "running" =>
          \A n \in DOMAIN enq :
              LET ids == {TasksOf(n)[i].task_id : i \in 1..Len(TasksOf(n))}
                  held == IF pull.pc = "put" /\ pull.item.node_id = n
                          THEN {pull.item.task_id} ELSE {}
                  inq == SelectSeq(queue, LAMBDA t : t.node_id = n)
              IN  /\ delivered \cap ids = SeqToSet(enq[n]) \cup held
                  /\ Len(inq) <= Len(enq[n])
                  /\ \A i \in 1..Len(inq) :
                        inq[i].task_id = enq[n][Len(enq[n]) - Len(inq) + i]

C6_Witness ==
    /\ Len(queue) = QueueMaxSize
    /\ pull.pc = "put"

\* C7: each worker has at most one execution in flight, and the number of
\* executions in flight never exceeds the number of actors.
C7_OneTaskPerWorker ==
    /\ \A w \in DOMAIN workers :
          Cardinality({f \in DOMAIN futures : futures[f].worker = w}) <= 1
    /\ Cardinality(DOMAIN futures) <= num_actors

C7_Witness ==
    /\ num_supernodes = 2
    /\ num_actors = 1
    /\ \E n, m \in DOMAIN task_res_store :
          /\ n # m
          /\ task_res_store[n] # <<>>
          /\ task_res_store[m] # <<>>

\* C8: neither assertion of the worker ever fails: an idle worker always
\* finds an idle actor, also after other workers have exited on an error.
C8_AssertionsNeverFail ==
    /\ \A w \in DOMAIN workers :
          workers[w].err \notin {"assert_available", "assert_future"}
    /\ (\E w \in DOMAIN workers : workers[w].pc = "get") => IsActorAvailable

C8_Witness ==
    \E v, w \in DOMAIN workers :
        /\ workers[v].err = "executor"
        /\ workers[w].pc = "wait"
        /\ pool_free = num_actors - 1

\* C9: for every node, the instructions put on the queue are, in order, a
\* prefix of the node's instructions in store order (so none is put
\* twice), and once all were delivered a poll returns nothing.
C9_PerNodeFifo ==
    \A n \in DOMAIN enq :
        /\ Len(enq[n]) <= Len(TasksOf(n))
        /\ \A i \in 1..Len(enq[n]) : enq[n][i] = TasksOf(n)[i].task_id
        /\ Len(enq[n]) = Len(TasksOf(n)) =>
              GetTaskIns(delivered, n, PollLimit) = <<>>

C9_Witness ==
    \E n, m \in DOMAIN enq :
        /\ n # m
        /\ Len(enq[n]) >= 2
        /\ Len(enq[m]) >= 1
        /\ Len(enq[n]) = Len(TasksOf(n))

\* The context an execution of the task returned (EmptyCtx for no task).
ContextReturnedBy(task_id) ==
    IF task_id = 0 THEN EmptyCtx
    ELSE LET task_ins == CHOOSE t \in AllTasks : t.task_id = task_id
         IN  ClientAppRun(taskins_to_message(task_ins, 0),
                          EmptyCtx).updated_context

\* C10: a task receives the empty context when no task of its node and
\* run has completed before, and otherwise the context returned by the
\* most recently completed one; a stored context is never removed, and
\* changes only when a task of its own node and run completes.
C10_ContextReceived ==
    \A w \in InFlight :
        /\ workers[w].run_state = ContextReturnedBy(workers[w].prev)
        /\ futures[workers[w].future].run_state = workers[w].run_state

C10_ContextFrame ==
    \A n \in DOMAIN node_states : \A r \in DOMAIN node_states[n] :
        /\ n \in DOMAIN node_states'
        /\ r \in DOMAIN node_states'[n]
        /\ node_states'[n][r] # node_states[n][r] =>
              \E w \in InFlight :
                  /\ workers[w].task_ins.node_id = n
                  /\ workers[w].task_ins.run_id = r
                  /\ workers'[w].pc = "get"
                  /\ node_states'[n][r] =
                        ContextReturnedBy(workers[w].task_ins.task_id)

C10_Contexts == []C10_ContextReceived /\ [][C10_ContextFrame]_vars

C10_Witness ==
    \E w \in InFlight :
        /\ workers[w].prev # 0
        /\ workers[w].run_state # EmptyCtx
        /\ \E n \in DOMAIN node_states : \E r \in DOMAIN node_states[n] :
              <<n, r>> # <<workers[w].task_ins.node_id,
                          workers[w].task_ins.run_id>>

\* The stored TaskIns with the given id.
TaskInsOf(task_id) == CHOOSE t \in AllTasks : t.task_id = task_id

\* C11: the Message handed to an actor carries the partition index of the
\* TaskIns consumer (nodes_mapping[consumer]) in its node_id field, not
\* the node id; run id, message id, group id, ttl and message type are
\* those of the TaskIns.
C11_MessageCarriesPartition ==
    \A f \in DOMAIN futures :
        LET task_ins == TaskInsOf(futures[f].task_id)
            message == futures[f].message
        IN  /\ message.node_id = nodes_mapping[task_ins.node_id]
            /\ message.node_id # task_ins.node_id
            /\ message.run_id = task_ins.run_id
            /\ message.message_id = task_ins.task_id
            /\ message.group_id = task_ins.group_id
            /\ message.ttl = task_ins.ttl
            /\ message.message_type = task_ins.task_type

C11_Witness ==
    \E f, g \in DOMAIN futures :
        /\ futures[f].message.node_id = 0
        /\ futures[g].message.node_id = 1
        /\ futures[g].message.message_type = "evaluate"
        /\ futures[g].message.run_id # futures[f].message.run_id

Results == UNION {SeqToSet(task_res_store[n]) : n \in DOMAIN task_res_store}

\* C12: every stored TaskRes is stamped with the consumer node of its
\* TaskIns as producer, references that TaskIns and carries the reply of
\* that instruction's execution; no instruction has two results.
C12_ResultAttribution ==
    \A n \in DOMAIN task_res_store :
        /\ \A i \in 1..Len(task_res_store[n]) :
              LET r == task_res_store[n][i]
              IN  /\ r.producer = n
                  /\ \E t \in AllTasks :
                        /\ t.task_id = r.ancestry
                        /\ t.node_id = r.producer
                        /\ t.run_id = r.run_id
                  /\ r.content = r.ancestry
        /\ \A i, j \in 1..Len(task_res_store[n]) :
              task_res_store[n][i].ancestry = task_res_store[n][j].ancestry
                  => i = j

\* Two workers were in flight together and the later instruction of a
\* node finished first.
C12_Witness ==
    \E n, m \in DOMAIN task_res_store :
        /\ n # m
        /\ task_res_store[m] # <<>>
        /\ Len(task_res_store[n]) = 2
        /\ task_res_store[n][1].ancestry = TaskId(n, 2)
        /\ task_res_store[n][2].ancestry = TaskId(n, 1)

\* C13: after a shutdown signal every worker eventually exits, the pull
\* loop stops polling and run_vce terminates.
C13_CooperativeShutdown ==
    shutdown ~> (/\ engine = "terminated"
                 /\ Running = {}
                 /\ pull.pc = "cancelled")

\* C14: an execution that outlasts its message's ttl is cancelled: no
\* worker keeps waiting for it, its actor is back in the pool and a
\* TaskRes for its instruction is stored.
C14_TtlExpiry ==
    \A t \in overdue :
        /\ \A w \in InFlight : workers[w].task_ins.task_id # t
        /\ \A f \in DOMAIN futures : futures[f].task_id # t
        /\ HasResult(t)

\* C15: in every state of the running engine the idle actors plus the
\* executions in flight make up the pool, after successful and failed
\* executions alike.
C15_PoolConserved ==
    engine # "init" =>
        /\ pool_free + Cardinality(DOMAIN futures) = num_actors
        /\ Cardinality(DOMAIN futures) = Cardinality(InFlight)

C15_Witness ==
    /\ failed # {}
    /\ Results # {}
    /\ DOMAIN futures # {}
    /\ pool_free = 1

Rejected(call) == ~CheckKey(call.key) \/ ~CheckValue(call.value)

\* C16: a set whose key or value is rejected by the record's predicate
\* fails ...
C16_SetRejectedFails ==
    (typed_dict.call.op = "setitem" /\ Rejected(typed_dict.call))
        => typed_dict.call.raised = "TypeError"

\* ... and leaves the record as it was: same keys, same values, same
\* order, also when the key is already present.
C16_SetRejectedFrame ==
    (typed_dict'.call.op = "setitem" /\ Rejected(typed_dict'.call))
        => typed_dict'.data = typed_dict.data

\* C16: record typing, both parts.
C16_RecordTyping == []C16_SetRejectedFails /\ [][C16_SetRejectedFrame]_vars

C16_Witness ==
    /\ typed_dict.call.op = "setitem"
    /\ typed_dict.call.raised = "TypeError"
    /\ CheckKey(typed_dict.call.key)
    /\ typed_dict.call.had_key
    /\ Len(typed_dict.data) = 2

MissingKey(call, ops) == call.op \in ops /\ ~call.had_key

\* C17 as stated: get, delete and pop of a key that is not present fail
\* with KeyError.
C17_MissingKeyAllFail ==
    MissingKey(typed_dict.call, {"getitem", "get", "delitem", "pop"})
        => typed_dict.call.raised = "KeyError"

C17_MissingKeyOutcome ==
    /\ MissingKey(typed_dict.call, {"getitem", "delitem", "pop"})
          => typed_dict.call.raised = "KeyError"
    /\ MissingKey(typed_dict.call, {"get"})
          => /\ typed_dict.call.raised = "none"
             /\ typed_dict.call.returned = typed_dict.call.value

C17_MissingKeyFrame ==
    MissingKey(typed_dict'.call, {"getitem", "get", "delitem", "pop"})
        => typed_dict'.data = typed_dict.data

\* C17: for a key that is not present, R[k], del R[k] and R.pop(k) fail
\* with KeyError, R.get(k, default) returns default, and all four leave
\* the record unchanged.
C17_MissingKey == []C17_MissingKeyOutcome /\ [][C17_MissingKeyFrame]_vars

C17_Witness ==
    /\ typed_dict.call.op = "pop"
    /\ typed_dict.call.raised = "KeyError"
    /\ CheckKey(typed_dict.call.key)
    /\ Len(typed_dict.data) = 1

\* C18: converting a ParametersRecord to Parameters and back gives a
\* record with as many entries as the record had, whose values, in
\* insertion order, hold the same blobs.
C18_ParametersRoundTrip ==
    conv.pc = "back" =>
        /\ Len(conv.back) = Len(conv.source)
        /\ \A i \in 1..Len(conv.source) :
              conv.back[i].value.data = conv.source[i].value.data

C18_Witness ==
    /\ conv.pc = "back"
    /\ Len(conv.source) = 2
    /\ conv.source[1].value.data # conv.source[2].value.data
    /\ conv.record = <<>>
    /\ conv.parameters.tensors = <<>>

\* C19: the Parameters made from a non-empty record have the stype of the
\* record's first Array as their tensor type.
C19_TensorTypeFromFirstArray ==
    (conv.pc = "parameters" /\ conv.source # <<>>)
        => conv.parameters.tensor_type = conv.source[1].value.stype

\* C20: every client result handed to the inner strategy's aggregate_fit
\* is within clipping_norm of the current round parameters, and a result
\* that already was is handed on unchanged.
C20_ClippingBound ==
    (dp.inner.called /\ dp.current_round_params # <<>>) =>
        \A c \in 1..Len(dp.inner.results) :
            LET sanitized == parameters_to_ndarrays(dp.inner.results[c])
                original == parameters_to_ndarrays(dp.results[c])
                current == dp.current_round_params
            IN  /\ Abs(sanitized[1] - current[1]) <= dp.clipping_norm
                /\ Abs(original[1] - current[1]) <= dp.clipping_norm
                      => sanitized = original

\* C21: the constructor of the DP wrapper succeeds exactly when
\* noise_multiplier >= 0, clipping_norm > 0 and num_sampled_clients > 0;
\* otherwise it raises and no wrapper holds the arguments.
C21_ConstructionValidated ==
    dp.pc # "new" =>
        /\ dp.pc = "ready" <=>
              /\ dp.args.noise_multiplier >= 0
              /\ dp.args.clipping_norm > 0
              /\ dp.args.num_sampled_clients > 0
        /\ dp.pc = "ready" =>
              Arguments(dp.noise_multiplier, dp.clipping_norm,
                        dp.num_sampled_clients) = dp.args
        /\ dp.pc # "ready" =>
              /\ dp.pc = "ValueError"
              /\ [dp EXCEPT !.pc = "new", !.args = Arguments(0, 0, 0)]
                     = NoWrapper

C21_Witness ==
    /\ dp.pc = "ready"
    /\ dp.args.noise_multiplier = 0
    /\ dp.args.clipping_norm = 1
    /\ dp.returned = "aggregated"

\* C22: an aggregate_fit call with a non-empty failures list still hands
\* the results, one per client, and the failures to the inner strategy's
\* aggregate_fit.
C22_FailuresReachInnerStrategy ==
    (dp.returned # "none" /\ dp.failures) =>
        /\ dp.inner.called
        /\ dp.inner.failures = dp.failures
        /\ Len(dp.inner.results) = Len(dp.results)

\* C27, state part: the node -> partition mapping is a bijection between
\* the created node ids and the partition indices 0..n-1; once run_vce
\* has registered the nodes there are exactly num_supernodes of them, one
\* NodeState per node, one worker per actor and one pull loop.
C27_Registered ==
    /\ {nodes_mapping[n] : n \in Nodes} = 0..(Cardinality(Nodes) - 1)
    /\ \A n, m \in Nodes : nodes_mapping[n] = nodes_mapping[m] => n = m
    /\ engine # "init" =>
          /\ Cardinality(Nodes) = num_supernodes
          /\ DOMAIN node_states = Nodes
          /\ DOMAIN workers = 1..num_actors
    /\ engine = "running" => pull.pc \in {"sleep", "put"}

\* C27, step part: the mapping never changes after registration.
C27_MappingFrozen == engine # "init" => nodes_mapping' = nodes_mapping

\* C27: registration and the engine's tasks, both parts.
C27_Registration == []C27_Registered /\ [][C27_MappingFrozen]_vars

C27_Witness ==
    /\ engine = "terminated"
    /\ num_supernodes = 2
    /\ num_actors = 2
    /\ Results # {}

\* C28: the partition id submitted with the Message (the third element
\* of the task tuple, a string) is the partition index in the Message's
\* node_id field.
C28_PartitionIdSubmitted ==
    \A f \in DOMAIN futures :
        futures[f].cid = ToString(futures[f].message.node_id)

\* C29: an update with a rejected entry raises and leaves the record as
\* it was when the call was made: no entry of the call is inserted or
\* overwritten.
C29_UpdateAllOrNothing ==
    (typed_dict.call.op = "update" /\ typed_dict.call.rejected)
        => /\ typed_dict.call.raised = "TypeError"
           /\ ~typed_dict.call.mutated

\* The (partition, position) pairs of a table that hold row number r.
Holders(table, r) ==
    {h \in UNION {{<<nid, j>> : j \in 1..Len(table[nid])} :
                    nid \in DOMAIN table} :
        table[h[1]][h[2]] = r}

Covers(p) ==
    /\ DOMAIN p.node_id_to_indices = 0..(p.num_partitions - 1)
    /\ \A r \in 0..(Len(p.dataset) - 1) :
          Cardinality(Holders(p.node_id_to_indices, r)) = 1
    /\ \A nid \in DOMAIN p.node_id_to_indices :
          \A j \in 1..Len(p.node_id_to_indices[nid]) :
              p.node_id_to_indices[nid][j] \in 0..(Len(p.dataset) - 1)

\* C23: once load_partition has materialized the table of a dataset of N
\* rows and P partitions, the table has the P partitions and every row
\* number 0..N-1 is in exactly one partition, exactly once; this for
\* every setting of self_balancing.
C23_PartitionCoverage == part[1].determined => Covers(part[1])

C23_Witness ==
    /\ part[1].determined
    /\ part[1].pc = "idle"
    /\ Len(part[1].dataset) = 3
    /\ Cardinality(SeqToSet(part[1].dataset)) = 2
    /\ part[1].num_partitions = 2
    /\ \A nid \in 0..1 : part[1].node_id_to_indices[nid] # <<>>
    /\ part[1].changed

\* C24: after the first load_partition no later load_partition replaces
\* the node -> indices table by a different one.
C24_MaterializedOnce == ~part[1].changed

\* C25: two partitioners constructed with the same dataset, seed, alpha
\* and flags that have both materialized hold the same node -> indices
\* table.
C25_Deterministic ==
    (part[1].determined /\ part[2].determined)
        => part[1].node_id_to_indices = part[2].node_id_to_indices

\* C26: a stored table has at least min_partition_size indices in every
\* one of its P partitions.
C26_MinPartitionSize ==
    part[1].determined =>
        /\ DOMAIN part[1].node_id_to_indices = 0..(part[1].num_partitions - 1)
        /\ \A nid \in DOMAIN part[1].node_id_to_indices :
              Len(part[1].node_id_to_indices[nid])
                  >= part[1].min_partition_size

C26_Witness ==
    /\ part[1].determined
    /\ part[1].min_partition_size = 1
    /\ part[1].num_partitions = 2
    /\ Len(part[1].dataset) = 3
    /\ Len(part[1].node_id_to_indices[0]) = 1

\* C30: with self_balancing enabled a load_partition does not fail:
\* once it has ended, the table is materialized.
C30_SelfBalancingCompletes ==
    (part[1].self_balancing /\ part[1].pc = "idle")
        => part[1].raised = "none"

\* C31: the record made from Parameters with n tensors has exactly n
\* entries, keyed "0" .. "n-1" in that order, the i-th holding the i-th
\* tensor with the Parameters' tensor type as stype, empty dtype and
\* empty shape.
C31_RecordFromParameters ==
    conv.pc = "back" =>
        /\ Len(conv.back) = Len(conv.given.tensors)
        /\ \A i \in 1..Len(conv.back) :
              /\ conv.back[i].key = ToString(i - 1)
              /\ conv.back[i].value =
                    Array(conv.given.tensors[i], "",
                          conv.given.tensor_type, <<>>)

C31_Witness ==
    /\ conv.pc = "back"
    /\ conv.source = <<>>
    /\ Len(conv.given.tensors) = 2
    /\ conv.given.tensors[1] # conv.given.tensors[2]
    /\ conv.given.tensor_type = "numpy.ndarray"
    /\ ~conv.keep_input

\* C32: a conversion returns the same value with keep_input true and
\* false; with keep_input true the source (the record's data, the
\* tensor list) is as it was, with keep_input false it is empty.
C32_KeepInput ==
    /\ conv.pc = "parameters" /\ conv.source # <<>> =>
          /\ \A keep_input \in BOOLEAN :
                conv.parameters =
                    parametersrecord_to_parameters(conv.source,
                                                   keep_input).parameters
          /\ conv.record = IF conv.keep_input THEN conv.source ELSE <<>>
    /\ conv.pc = "back" =>
          /\ \A keep_input \in BOOLEAN :
                conv.back =
                    parameters_to_parametersrecord(conv.given,
                                                   keep_input).data
          /\ conv.parameters.tensors =
                IF conv.keep_input THEN conv.given.tensors ELSE <<>>

C32_Witness ==
    /\ conv.pc = "back"
    /\ Len(conv.source) = 2
    /\ conv.record = <<>>
    /\ conv.keep_input
    /\ conv.parameters.tensors = <<1, 2>>

\* C33, state part: iteration yields every present key once, and the
\* keys, values and items views follow the iteration order.
C33_Views ==
    LET keys == TypedDict_iter(typed_dict.data)
    IN  /\ \A i, j \in 1..Len(keys) : keys[i] = keys[j] => i = j
        /\ TypedDict_keys(typed_dict.data) = keys
        /\ \A i \in 1..Len(keys) :
              /\ TypedDict_values(typed_dict.data)[i]
                    = DictGetItem(typed_dict.data, keys[i])
              /\ TypedDict_items(typed_dict.data)[i]
                    = <<keys[i], DictGetItem(typed_dict.data, keys[i])>>

\* C33, step part: the keys that stay present form, in their old order,
\* the beginning of the new iteration order (so an overwritten key keeps
\* its position and inserted keys come last), and the keys an update
\* inserts follow in the order of its entries.
C33_StepKeepsOrder ==
    LET old == TypedDict_iter(typed_dict.data)
        new == TypedDict_iter(typed_dict'.data)
        kept == SelectSeq(old, LAMBDA k : k \in SeqToSet(new))
    IN  /\ Len(kept) <= Len(new)
        /\ SubSeq(new, 1, Len(kept)) = kept
        /\ typed_dict'.call.op = "update" =>
              LET fresh == SelectSeq(typed_dict'.call.entries,
                                     LAMBDA k : k \notin SeqToSet(old))
              IN  SubSeq(new, Len(kept) + 1, Len(new))
                      = SubSeq(fresh, 1, Len(new) - Len(kept))

\* C33: iteration and the views yield the present keys in the order of
\* their insertion, after any sequence of set, delete, pop, update and
\* clear.
C33_InsertionOrder == []C33_Views /\ [][C33_StepKeepsOrder]_vars

C33_Witness ==
    /\ typed_dict.call.op = "update"
    /\ typed_dict.call.raised = "none"
    /\ typed_dict.call.mutated
    /\ Len(typed_dict.data) = 2
    /\ Len(typed_dict.call.entries) = 1
    /\ typed_dict.data[1].key = typed_dict.call.entries[1]

\* The instructions of node n that the store hands out in this step.
PolledOut(n) ==
    {t \in delivered' \ delivered :
        \E i \in 1..Len(TasksOf(n)) : TasksOf(n)[i].task_id = t}

\* C34, one step of the pull loop: the step polls the nodes from the one
\* after the last polled (the first when a cycle starts) to the one
\* whose put suspends (the last when the cycle ends).  Each of these
\* nodes is polled once with limit 1: it is handed exactly one
\* instruction when it has one pending, whatever the other nodes have
\* pending, and no other node is handed any; no node has more than one
\* instruction put on the queue.
C34_StepPollsOnce ==
    (/\ engine = "running"
     /\ pull'.pc \in {"sleep", "put"}
     /\ delivered' # delivered \/ pull' # pull) =>
        LET first == IF pull.pc = "put" THEN pull.idx + 1 ELSE 0
            last == IF pull'.pc = "put" THEN pull'.idx
                    ELSE Cardinality(Nodes) - 1
        IN  \A n \in Nodes :
                /\ Cardinality(PolledOut(n)) =
                      IF /\ first <= nodes_mapping[n]
                         /\ nodes_mapping[n] <= last
                         /\ GetTaskIns(delivered, n, 1) # <<>>
                      THEN 1 ELSE 0
                /\ Len(enq'[n]) <= Len(enq[n]) + 1

\* C34: in every polling cycle every registered node is polled exactly
\* once with limit 1, so at most one instruction per node is put on the
\* queue per cycle, and a node with pending instructions is polled in
\* every cycle regardless of what other nodes have pending.
C34_FairPolling == [][C34_StepPollsOnce]_vars

C34_Witness ==
    /\ engine = "running"
    /\ Cardinality(Nodes) = 2
    /\ \E n, m \in Nodes :
          /\ n # m
          /\ Len(TasksOf(n)) = 2
          /\ Len(enq[n]) = 1
          /\ Len(TasksOf(m)) = 1
          /\ Len(enq[m]) = 1

\* C35: configure_fit returns what the inner strategy's configure_fit
\* returned, and the updates aggregate_fit computes are the clients'
\* parameters minus the parameters passed to the most recent
\* configure_fit.
C35_CurrentRoundParameters ==
    /\ dp.configure.called =>
          /\ dp.configure.returned = dp.configure.inner
          /\ dp.configure.inner.parameters = dp.configure.parameters
    /\ (dp.inner.called /\ dp.configure.called) =>
          \A c \in 1..Len(dp.results) :
              LET client == parameters_to_ndarrays(dp.results[c])
                  current == parameters_to_ndarrays(dp.configure.parameters)
              IN  /\ Len(dp.updates) = Len(dp.results)
                  /\ dp.updates[c] =
                        [i \in 1..Len(client) |-> client[i] - current[i]]

C35_Witness ==
    /\ dp.inner.called
    /\ dp.configure.called
    /\ dp.configure.parameters = ParametersOf(2)
    /\ dp.configure.returned.clients = 2
    /\ dp.configure.returned.parameters = ParametersOf(2)
    /\ Len(dp.results) = 2
    /\ dp.updates = <<<<-2>>, <<-1>>>>

\* Task ids put on the queue so far, still on the queue, and in flight.
EnqueuedIds == UNION {SeqToSet(enq[n]) : n \in DOMAIN enq}
QueuedIds == {queue[i].task_id : i \in 1..Len(queue)}
InFlightIds == {futures[f].task_id : f \in DOMAIN futures}

\* C36: at-most-once execution.  Every instruction is put on the queue at
\* most once and only after the store marked it delivered; an instruction
\* is never on the queue twice; it is in flight in at most one future, and
\* only after it left the queue; at most one TaskRes references it, written
\* only after it left the queue and its future was fetched; an instruction
\* whose execution raised has no result and is not submitted again.
C36_AtMostOnce ==
    engine = "running" =>
        /\ \A n, m \in DOMAIN enq :
              \A i \in 1..Len(enq[n]) : \A j \in 1..Len(enq[m]) :
                  enq[n][i] = enq[m][j] => (n = m /\ i = j)
        /\ EnqueuedIds \subseteq delivered
        /\ \A i, j \in 1..Len(queue) :
              queue[i].task_id = queue[j].task_id => i = j
        /\ QueuedIds \subseteq EnqueuedIds
        /\ \A f, g \in DOMAIN futures :
              futures[f].task_id = futures[g].task_id => f = g
        /\ InFlightIds \subseteq EnqueuedIds \ QueuedIds
        /\ \A r, s \in Results : r.ancestry = s.ancestry => r = s
        /\ \A r \in Results :
              r.ancestry \in (EnqueuedIds \ QueuedIds) \ InFlightIds
        /\ \A t \in failed :
              /\ t \in (EnqueuedIds \ QueuedIds) \ InFlightIds
              /\ \A r \in Results : r.ancestry # t

\* Two instructions are in flight in two actors while a third one already
\* has its result.
C36_Witness ==
    /\ engine = "running"
    /\ Cardinality(InFlightIds) = 2
    /\ Results # {}

\* The instructions whose future is consumed by the step.
Fetched == InFlightIds \ {futures'[f].task_id : f \in DOMAIN futures'}

\* C37, the failing step: the execution raises, the context of every node
\* and run is what it was and no TaskRes is written.
C37_FailureFrame ==
    failed' # failed =>
        /\ node_states' = node_states
        /\ task_res_store' = task_res_store
        /\ failed' \ failed \subseteq Fetched

\* C37, the order of the successful step: a context is replaced only in a
\* step in which the fetch of an instruction of that node and run returned
\* without raising, and a TaskRes is written only together with the context
\* its execution returned.
C37_UpdateAfterFetch ==
    (engine = "running" /\ engine' = "running") =>
        /\ \A n \in DOMAIN node_states : \A r \in DOMAIN node_states[n] :
              node_states'[n][r] # node_states[n][r] =>
                  /\ failed' = failed
                  /\ \E t \in Fetched :
                        /\ TaskInsOf(t).node_id = n
                        /\ TaskInsOf(t).run_id = r
                        /\ node_states'[n][r] = ContextReturnedBy(t)
        /\ \A n \in DOMAIN task_res_store :
              task_res_store'[n] # task_res_store[n] =>
                  LET res == Last(task_res_store'[n])
                  IN  /\ task_res_store'[n] = Append(task_res_store[n], res)
                      /\ res.ancestry \in Fetched
                      /\ node_states'[n][res.run_id] =
                            ContextReturnedBy(res.ancestry)

\* C37: a task whose execution raises leaves the stored context of its node
\* and run unchanged and writes no TaskRes; update_context happens only
\* after the fetch returned, and the TaskRes is never written before it.
C37_FailedTaskKeepsContext ==
    [][C37_FailureFrame /\ C37_UpdateAfterFetch]_vars

\* An execution raised for a node and run whose stored context is the one
\* an earlier, completed instruction returned.
C37_Witness ==
    \E t \in failed : \E res \in Results :
        /\ res.ancestry # t
        /\ res.producer = TaskInsOf(t).node_id
        /\ res.run_id = TaskInsOf(t).run_id
        /\ node_states[res.producer][res.run_id] =
              ContextReturnedBy(res.ancestry)
        /\ node_states[res.producer][res.run_id] # ContextReturnedBy(t)

\* The minimum cannot be met: num_partitions * min_partition_size exceeds
\* the number of rows.
Unsatisfiable(p) == p.num_partitions * p.min_partition_size > Len(p.dataset)

\* C38, the returns: a table is stored, and a partition returned, only
\* when num_partitions * min_partition_size <= N.
C38_ReturnsOnlyWhenSatisfiable ==
    (part[1].determined \/ part[1].returned # <<>>) => ~Unsatisfiable(part[1])

\* C38, the loop: a running load_partition whose minimum cannot be met
\* drops every table it draws and goes round again, whatever number of
\* tables it has dropped; it ends only by the exception of the
\* self-balancing branch, never by a return.
C38_PassRedraws ==
    (part[1].pc = "loading" /\ Unsatisfiable(part[1])) =>
        \/ part'[1] = [part[1] EXCEPT !.redrawn = TRUE]
        \/ /\ part[1].self_balancing
           /\ part'[1] = [part[1] EXCEPT !.pc = "idle",
                                         !.raised = "AttributeError"]

\* C38: the re-draw loop has no retry bound; with
\* num_partitions * min_partition_size > N no draw meets the minimum and
\* load_partition never returns, and it returns only when
\* num_partitions * min_partition_size <= N.
C38_NoRetryBound ==
    []C38_ReturnsOnlyWhenSatisfiable /\ [][C38_PassRedraws]_vars

\* Two partitions of at least two rows are asked of three rows; the call
\* has drawn and dropped a table and is still in the loop.
C38_Witness ==
    /\ part[1].pc = "loading"
    /\ part[1].redrawn
    /\ ~part[1].self_balancing
    /\ part[1].num_partitions = 2
    /\ part[1].min_partition_size = 2
    /\ Len(part[1].dataset) = 3

=============================================================================
